---- MODULE Spec2Model ----
(***************************************************************************)
(* MockVMManager (src/vm/vm_manager.go): an in-memory registry of named    *)
(* virtual machines behind one sync.RWMutex, called from several           *)
(* goroutines.  Every method is modelled statement group by statement      *)
(* group: the guard is taken, the body runs in steps (one per shared read  *)
(* or write), and the deferred Unlock/RUnlock returns the result.          *)
(***************************************************************************)
EXTENDS Naturals, Sequences, FiniteSets, TLC

\* ---------------------------------------------------------------- bounds
\* The number of goroutines calling the manager.
MaxThreads == 2

Threads == 1..MaxThreads

\* Names callers pass.  "" is the empty name CreateVM rejects.
NamePool == <<"vm1", "db-vm">>
VMNames == {NamePool[i] : i \in 1..Len(NamePool)}
Names == {""} \cup VMNames

\* Quantities callers pass: zero (rejected) and the values of the examples.
MemoryValues == {0, 512}
VCPUValues == {0, 1}
DiskPaths == {"", "/mock/path/disk.qcow2"}

\* ------------------------------------------------------------ data types
\* type VMConfig struct
VMConfig == [Name : Names, Memory : MemoryValues, VCPUs : VCPUValues,
             DiskPath : DiskPaths, DiskSize : {0}, ISOImage : {""},
             Network : {""}]

\* type VMState string, and its three constants
VMStateStopped == "stopped"
VMStateRunning == "running"
VMStatePaused == "paused"
VMState == {VMStateStopped, VMStateRunning, VMStatePaused}

\* *MockVM: a pointer is an address of the heap, Nil the nil pointer.  A record
\* made for a name gets the first free address of that name's block; a block
\* holds the record in the map and one stale record per goroutine.
Nil == 0
BlockSize == MaxThreads + 1
NameIndex(n) == IF n = "" THEN 0 ELSE CHOOSE i \in 1..Len(NamePool) : NamePool[i] = n
Block(n) == (NameIndex(n) * BlockSize + 1)..(NameIndex(n) * BlockSize + BlockSize)

\* The error values the methods build with fmt.Errorf, and nil.
ErrNil == "nil"
ErrExists == "already exists"
ErrEmptyName == "VM name cannot be empty"
ErrZeroMemory == "VM memory cannot be zero"
ErrZeroVCPUs == "VM VCPUs cannot be zero"
ErrNotFound == "not found"

Ops == {"CreateVM", "ListVMs", "StartVM", "StopVM", "DeleteVM",
        "GetVMInfo", "GetVMState", "Close"}

\* The methods that take a name.
ByName == {"StartVM", "StopVM", "DeleteVM", "GetVMInfo", "GetVMState"}

\* A call: the method and its argument (a name, or for CreateVM a config).
ZeroConfig == [Name |-> "", Memory |-> 0, VCPUs |-> 0, DiskPath |-> "",
               DiskSize |-> 0, ISOImage |-> "", Network |-> ""]
NoCall == [op |-> "none", name |-> "", config |-> ZeroConfig]
Calls ==
    {[op |-> "CreateVM", name |-> c.Name, config |-> c] : c \in VMConfig}
    \cup {[op |-> o, name |-> n, config |-> ZeroConfig] :
            o \in {"StartVM", "StopVM", "DeleteVM", "GetVMInfo", "GetVMState"},
            n \in Names}
    \cup {[op |-> o, name |-> "", config |-> ZeroConfig] :
            o \in {"ListVMs", "Close"}}

\* What a caller remembers of a finished call.
NoLast == [op |-> "none", name |-> "", err |-> ErrNil]
Summary(c, r) == [op |-> c.op, name |-> c.name, err |-> r.err]

\* What a method returns: Go's zero values until the body sets them.
ZeroRet == [err |-> ErrNil, state |-> "", names |-> <<>>, info |-> Nil]

VARIABLES
    vms,    \* m.vms: map[string]*MockVM, a function from the keys to addresses
    heap,   \* the MockVM records the pointers refer to
    mu,     \* m.mu: the RWMutex, who holds it
    next,   \* m.next
    pc,     \* per goroutine: where it is in its method
    call,   \* per goroutine: the method it is in and its argument
    vm,     \* per goroutine: the local vm / mockVM pointer
    ret,    \* per goroutine: the values it returns
    pre,    \* per goroutine: the registry's contents when it took the guard
    created, \* the names whose latest successful CreateVM / DeleteVM was a CreateVM
    stopped, \* those of them with a successful StopVM since that CreateVM
    last,   \* a lone caller's previous call and its error
    start   \* the registry's contents when the calls under study were made

vars == <<vms, heap, mu, next, pc, call, vm, ret, pre, created, stopped, last, start>>

\* ----------------------------------------------------------- the registry
\* The registry as a caller sees it: each name with its record's fields.
View(m, h) == [n \in DOMAIN m |-> h[m[n]]]
EmptyView == [n \in {} |-> Nil]
Registry == View(vms, heap)

\* &MockVM{...}: a fresh address.
NewAddr(h, n) ==
    CHOOSE a \in Block(n) \ DOMAIN h : \A b \in Block(n) \ DOMAIN h : a <= b

\* Records no pointer refers to any more are collected.
Collect(h, m, locals) ==
    LET live == {m[n] : n \in DOMAIN m} \cup {locals[t] : t \in Threads}
    IN [a \in DOMAIN h \cap live |-> h[a]]

\* ------------------------------------------------------------- sync.RWMutex
\* mu.writer: the goroutine holding Lock (or Nil); mu.readers: those holding RLock.
\* The methods that take it with RLock; the others that lock take it with Lock.
ReadOps == {"ListVMs", "GetVMInfo", "GetVMState"}

\* Mutants: every method, or DeleteVM, takes the guard with RLock.
LockModeAllShared(op) == "shared"
LockModeDeleteShared(op) == IF op \in ReadOps \cup {"DeleteVM"} THEN "shared" ELSE "exclusive"

\* Mutant: CreateVM takes the guard with RLock.
LockModeCreateShared(op) == IF op \in ReadOps \cup {"CreateVM"} THEN "shared" ELSE "exclusive"

\* The mode each method takes the guard in.
LockMode(op) == IF op \in ReadOps THEN "shared" ELSE "exclusive"

\* Mutant: Lock() waits for a writer to leave but not for the readers.
CanLockPastReaders(mode) == mu.writer = Nil

\* m.mu.Lock() / m.mu.RLock() can return
CanLock(mode) ==
    IF mode = "exclusive" THEN mu.writer = Nil /\ mu.readers = {}
    ELSE mu.writer = Nil

Locked(t, mode) ==
    IF mode = "exclusive" THEN [mu EXCEPT !.writer = t]
    ELSE [mu EXCEPT !.readers = @ \cup {t}]

\* m.mu.Unlock() / m.mu.RUnlock().  Unlock lets in the readers that blocked in
\* RLock while the writer was waiting or inside: they hold the guard from then
\* on, before any writer that comes next.
Unlocked(t, mode) ==
    IF mode = "exclusive"
    THEN [writer |-> Nil, readers |-> {u \in Threads : pc[u] = "blocked"}]
    ELSE [mu EXCEPT !.readers = @ \ {t}]

\* The first body statement of each method.
Entry(op) ==
    CASE op = "CreateVM" -> "check"
      [] op = "ListVMs" -> "range"
      [] op \in {"StartVM", "StopVM", "DeleteVM", "GetVMInfo", "GetVMState"} -> "lookup"
      [] op = "Close" -> "log"

\* ------------------------------------------------------------------ Init
\* NewMockVMManager(): an empty map, next = 1; no goroutine inside.
Init ==
    /\ vms = EmptyView
    /\ heap = EmptyView
    /\ mu = [writer |-> Nil, readers |-> {}]
    /\ next = 1
    /\ pc = [t \in Threads |-> "idle"]
    /\ call = [t \in Threads |-> NoCall]
    /\ vm = [t \in Threads |-> Nil]
    /\ ret = [t \in Threads |-> ZeroRet]
    /\ pre = [t \in Threads |-> EmptyView]
    /\ created = {}
    /\ stopped = {}
    /\ last = NoLast
    /\ start = EmptyView

\* --------------------------------------------------------------- actions
\* Goroutine t gets past the first statement of method c.op, m.mu.Lock() or
\* m.mu.RLock() (Close takes no lock), and stands before the body.
Enter(t, c) ==
    /\ IF c.op = "Close"
       THEN UNCHANGED <<mu, pre>>
       ELSE /\ CanLock(LockMode(c.op))
            /\ mu' = Locked(t, LockMode(c.op))
            /\ pre' = [pre EXCEPT ![t] = Registry]
    /\ call' = [call EXCEPT ![t] = c]
    /\ pc' = [pc EXCEPT ![t] = Entry(c.op)]
    /\ ret' = [ret EXCEPT ![t] = ZeroRet]
    /\ vm' = [vm EXCEPT ![t] = Nil]
    /\ heap' = Collect(heap, vms, vm')
    /\ UNCHANGED <<vms, next, created, stopped, start>>

\* A goroutine calls a method; the call returns from Lock/RLock at once when
\* the guard is free, and else is not yet in the picture.
Call(t, c) == pc[t] = "idle" /\ Enter(t, c) /\ UNCHANGED last

\* A call that was blocked in m.mu.Lock() / m.mu.RLock() takes the guard.
Acquire(t) == pc[t] = "lock" /\ Enter(t, call[t]) /\ UNCHANGED last

\* A caller that kept its result makes its next call, remembering how the
\* previous one went.
Again(t, c) ==
    /\ pc[t] = "done"
    /\ last' = Summary(call[t], ret[t])
    /\ Enter(t, c)

\* Mutants: CreateVM without its memory check, without its existence check.
CreateVMErrorNoMemory(m, config) ==
    IF config.Name \in DOMAIN m THEN ErrExists
    ELSE IF config.Name = "" THEN ErrEmptyName
    ELSE IF config.VCPUs = 0 THEN ErrZeroVCPUs
    ELSE ErrNil

\* Mutant: the VCPUs check is made before the memory check.
CreateVMErrorVCPUsFirst(m, config) ==
    IF config.Name \in DOMAIN m THEN ErrExists
    ELSE IF config.Name = "" THEN ErrEmptyName
    ELSE IF config.VCPUs = 0 THEN ErrZeroVCPUs
    ELSE IF config.Memory = 0 THEN ErrZeroMemory
    ELSE ErrNil

CreateVMErrorNoExists(m, config) ==
    IF config.Name = "" THEN ErrEmptyName
    ELSE IF config.Memory = 0 THEN ErrZeroMemory
    ELSE IF config.VCPUs = 0 THEN ErrZeroVCPUs
    ELSE ErrNil

\* CreateVM, lines 71-85: the existence check, then the validation.
CreateVMError(m, config) ==
    IF config.Name \in DOMAIN m THEN ErrExists
    ELSE IF config.Name = "" THEN ErrEmptyName
    ELSE IF config.Memory = 0 THEN ErrZeroMemory
    ELSE IF config.VCPUs = 0 THEN ErrZeroVCPUs
    ELSE ErrNil

\* &MockVM{Config: config, State: VMStateStopped}, lines 88-91
NewMockVM(config) == [Config |-> config, State |-> VMStateStopped]

\* Mutant: the record is stored before the configuration is validated.
CreateVMCheckAfterPut(t) ==
    /\ pc[t] = "check" /\ call[t].op = "CreateVM"
    /\ LET e == CreateVMError(vms, call[t].config)
           a == NewAddr(heap, call[t].config.Name)
           name == call[t].config.Name
       IN IF e = ErrExists
          THEN /\ ret' = [ret EXCEPT ![t].err = e]
               /\ pc' = [pc EXCEPT ![t] = "unlock"]
               /\ UNCHANGED <<vms, heap, vm>>
          ELSE /\ heap' = [x \in DOMAIN heap \cup {a} |->
                             IF x = a THEN NewMockVM(call[t].config) ELSE heap[x]]
               /\ vms' = [n \in DOMAIN vms \cup {name} |->
                             IF n = name THEN a ELSE vms[n]]
               /\ vm' = [vm EXCEPT ![t] = a]
               /\ IF e # ErrNil
                  THEN /\ ret' = [ret EXCEPT ![t].err = e]
                       /\ pc' = [pc EXCEPT ![t] = "unlock"]
                  ELSE /\ pc' = [pc EXCEPT ![t] = "run"]
                       /\ UNCHANGED ret
    /\ UNCHANGED <<mu, next, call, pre, created, stopped, last, start>>

CreateVMCheck(t) ==
    /\ pc[t] = "check" /\ call[t].op = "CreateVM"
    /\ LET e == CreateVMError(vms, call[t].config)
       IN IF e # ErrNil
          THEN /\ ret' = [ret EXCEPT ![t].err = e]
               /\ pc' = [pc EXCEPT ![t] = "unlock"]
          ELSE /\ pc' = [pc EXCEPT ![t] = "put"]
               /\ UNCHANGED ret
    /\ UNCHANGED <<vms, heap, mu, next, call, vm, pre, created, stopped, last, start>>

\* CreateVM, lines 88-93: mockVM := &MockVM{config, Stopped}; m.vms[name] = mockVM
CreateVMPut(t) ==
    /\ pc[t] = "put" /\ call[t].op = "CreateVM"
    /\ LET a == NewAddr(heap, call[t].config.Name)
           name == call[t].config.Name
       IN /\ heap' = [x \in DOMAIN heap \cup {a} |->
                        IF x = a THEN NewMockVM(call[t].config) ELSE heap[x]]
          /\ vms' = [n \in DOMAIN vms \cup {name} |->
                        IF n = name THEN a ELSE vms[n]]
          /\ vm' = [vm EXCEPT ![t] = a]
    /\ pc' = [pc EXCEPT ![t] = "run"]
    /\ UNCHANGED <<mu, next, call, ret, pre, created, stopped, last, start>>

\* CreateVM, lines 99-102: mockVM.State = VMStateRunning; return nil
CreateVMNotStarted == VMStateStopped

CreateVMStarted == VMStateRunning

CreateVMRun(t) ==
    /\ pc[t] = "run" /\ call[t].op = "CreateVM"
    /\ heap' = [heap EXCEPT ![vm[t]].State = CreateVMStarted]
    /\ ret' = [ret EXCEPT ![t].err = ErrNil]
    /\ pc' = [pc EXCEPT ![t] = "unlock"]
    /\ UNCHANGED <<vms, mu, next, call, vm, pre, created, stopped, last, start>>

\* ListVMs, lines 110-116: the keys in the order the map iteration yields them.
Orders(S) ==
    {s \in [1..Cardinality(S) -> S] : \A i, j \in 1..Cardinality(S) : s[i] = s[j] => i = j}

\* Mutant: vmNames is made with length len(m.vms), not capacity, so the
\* appended names follow that many empty strings.
ListVMsRangeLen(t) ==
    /\ pc[t] = "range" /\ call[t].op = "ListVMs"
    /\ \E vmNames \in Orders(DOMAIN vms) :
          ret' = [ret EXCEPT ![t].names = [i \in 1..Len(vmNames) |-> ""] \o vmNames,
                             ![t].err = ErrNil]
    /\ pc' = [pc EXCEPT ![t] = "unlock"]
    /\ UNCHANGED <<vms, heap, mu, next, call, vm, pre, created, stopped, last, start>>

ListVMsRange(t) ==
    /\ pc[t] = "range" /\ call[t].op = "ListVMs"
    /\ \E vmNames \in Orders(DOMAIN vms) :
          ret' = [ret EXCEPT ![t].names = vmNames, ![t].err = ErrNil]
    /\ pc' = [pc EXCEPT ![t] = "unlock"]
    /\ UNCHANGED <<vms, heap, mu, next, call, vm, pre, created, stopped, last, start>>

\* Mutant: the lookup reports a missing name with CreateVM's error.
LookupWrongError(t, found) ==
    /\ pc[t] = "lookup"
    /\ IF call[t].name \in DOMAIN vms
       THEN /\ vm' = [vm EXCEPT ![t] = vms[call[t].name]]
            /\ pc' = [pc EXCEPT ![t] = found]
            /\ UNCHANGED ret
       ELSE /\ ret' = [ret EXCEPT ![t].err = ErrExists]
            /\ pc' = [pc EXCEPT ![t] = "unlock"]
            /\ UNCHANGED vm
    /\ UNCHANGED <<vms, heap, mu, next, call, pre, created, stopped, last, start>>

\* vm, exists := m.vms[name]; if !exists { return ... not found }
\* (lines 124-127, 144-147, 164-167, 186-189, 199-202)
Lookup(t, found) ==
    /\ pc[t] = "lookup"
    /\ IF call[t].name \in DOMAIN vms
       THEN /\ vm' = [vm EXCEPT ![t] = vms[call[t].name]]
            /\ pc' = [pc EXCEPT ![t] = found]
            /\ UNCHANGED ret
       ELSE /\ ret' = [ret EXCEPT ![t].err = ErrNotFound]
            /\ pc' = [pc EXCEPT ![t] = "unlock"]
            /\ UNCHANGED vm
    /\ UNCHANGED <<vms, heap, mu, next, call, pre, created, stopped, last, start>>

\* StartVM, lines 124-127
StartVMLookup(t) == call[t].op = "StartVM" /\ Lookup(t, "setstate")

\* Mutant: starting a running machine is an error.
StartVMSetStrict(t) ==
    /\ pc[t] = "setstate" /\ call[t].op = "StartVM"
    /\ IF heap[vm[t]].State = VMStateRunning
       THEN /\ ret' = [ret EXCEPT ![t].err = "already running"]
            /\ UNCHANGED heap
       ELSE /\ heap' = [heap EXCEPT ![vm[t]].State = VMStateRunning]
            /\ ret' = [ret EXCEPT ![t].err = ErrNil]
    /\ pc' = [pc EXCEPT ![t] = "unlock"]
    /\ UNCHANGED <<vms, mu, next, call, vm, pre, created, stopped, last, start>>

\* Mutant: StartVM replaces the record, *vm = MockVM{State: VMStateRunning}.
StartVMSetReset(t) ==
    /\ pc[t] = "setstate" /\ call[t].op = "StartVM"
    /\ IF heap[vm[t]].State = VMStateRunning
       THEN UNCHANGED heap
       ELSE heap' = [heap EXCEPT ![vm[t]] = [Config |-> ZeroConfig, State |-> VMStateRunning]]
    /\ ret' = [ret EXCEPT ![t].err = ErrNil]
    /\ pc' = [pc EXCEPT ![t] = "unlock"]
    /\ UNCHANGED <<vms, mu, next, call, vm, pre, created, stopped, last, start>>

\* StartVM, lines 129-136: nothing to do when running, else vm.State = Running
StartVMSet(t) ==
    /\ pc[t] = "setstate" /\ call[t].op = "StartVM"
    /\ IF heap[vm[t]].State = VMStateRunning
       THEN UNCHANGED heap
       ELSE heap' = [heap EXCEPT ![vm[t]].State = VMStateRunning]
    /\ ret' = [ret EXCEPT ![t].err = ErrNil]
    /\ pc' = [pc EXCEPT ![t] = "unlock"]
    /\ UNCHANGED <<vms, mu, next, call, vm, pre, created, stopped, last, start>>

\* StopVM, lines 144-147
StopVMLookup(t) == call[t].op = "StopVM" /\ Lookup(t, "setstate")

\* StopVM, lines 149-156: nothing to do when stopped, else vm.State = Stopped
\* Mutant: StopVM suspends the machine instead of stopping it.
StopVMSetPaused(t) ==
    /\ pc[t] = "setstate" /\ call[t].op = "StopVM"
    /\ IF heap[vm[t]].State = VMStateStopped
       THEN UNCHANGED heap
       ELSE heap' = [heap EXCEPT ![vm[t]].State = VMStatePaused]
    /\ ret' = [ret EXCEPT ![t].err = ErrNil]
    /\ pc' = [pc EXCEPT ![t] = "unlock"]
    /\ UNCHANGED <<vms, mu, next, call, vm, pre, created, stopped, last, start>>

StopVMSet(t) ==
    /\ pc[t] = "setstate" /\ call[t].op = "StopVM"
    /\ IF heap[vm[t]].State = VMStateStopped
       THEN UNCHANGED heap
       ELSE heap' = [heap EXCEPT ![vm[t]].State = VMStateStopped]
    /\ ret' = [ret EXCEPT ![t].err = ErrNil]
    /\ pc' = [pc EXCEPT ![t] = "unlock"]
    /\ UNCHANGED <<vms, mu, next, call, vm, pre, created, stopped, last, start>>

\* DeleteVM, lines 164-167
DeleteVMLookup(t) == call[t].op = "DeleteVM" /\ Lookup(t, "stop")

\* Mutant: DeleteVM goes straight to the removal.
DeleteVMStopSkipped(t) ==
    /\ pc[t] = "stop" /\ call[t].op = "DeleteVM"
    /\ pc' = [pc EXCEPT ![t] = "remove"]
    /\ UNCHANGED <<vms, heap, mu, next, call, vm, ret, pre, created, stopped, last, start>>

\* Mutant: a running machine must be stopped by the caller first.
DeleteVMStopRequired(t) ==
    /\ pc[t] = "stop" /\ call[t].op = "DeleteVM"
    /\ IF heap[vm[t]].State = VMStateRunning
       THEN /\ ret' = [ret EXCEPT ![t].err = "is running"]
            /\ pc' = [pc EXCEPT ![t] = "unlock"]
       ELSE /\ pc' = [pc EXCEPT ![t] = "remove"]
            /\ UNCHANGED ret
    /\ UNCHANGED <<vms, heap, mu, next, call, vm, pre, created, stopped, last, start>>

\* DeleteVM, lines 170-173: a running machine is stopped first
DeleteVMStop(t) ==
    /\ pc[t] = "stop" /\ call[t].op = "DeleteVM"
    /\ IF heap[vm[t]].State = VMStateRunning
       THEN heap' = [heap EXCEPT ![vm[t]].State = VMStateStopped]
       ELSE UNCHANGED heap
    /\ pc' = [pc EXCEPT ![t] = "remove"]
    /\ UNCHANGED <<vms, mu, next, call, vm, ret, pre, created, stopped, last, start>>

\* Mutant: DeleteVM empties the map, m.vms = make(map[string]*MockVM).
DeleteVMRemoveAll(t) ==
    /\ pc[t] = "remove" /\ call[t].op = "DeleteVM"
    /\ vms' = EmptyView
    /\ ret' = [ret EXCEPT ![t].err = ErrNil]
    /\ pc' = [pc EXCEPT ![t] = "unlock"]
    /\ UNCHANGED <<heap, mu, next, call, vm, pre, created, stopped, last, start>>

\* Mutant: the entry is not removed.
DeleteVMRemoveNothing(t) ==
    /\ pc[t] = "remove" /\ call[t].op = "DeleteVM"
    /\ ret' = [ret EXCEPT ![t].err = ErrNil]
    /\ pc' = [pc EXCEPT ![t] = "unlock"]
    /\ UNCHANGED <<vms, heap, mu, next, call, vm, pre, created, stopped, last, start>>

\* DeleteVM, lines 176-178: delete(m.vms, name); return nil
DeleteVMRemove(t) ==
    /\ pc[t] = "remove" /\ call[t].op = "DeleteVM"
    /\ vms' = [n \in DOMAIN vms \ {call[t].name} |-> vms[n]]
    /\ ret' = [ret EXCEPT ![t].err = ErrNil]
    /\ pc' = [pc EXCEPT ![t] = "unlock"]
    /\ UNCHANGED <<heap, mu, next, call, vm, pre, created, stopped, last, start>>

\* GetVMInfo, lines 186-191: the lookup; return vm, nil hands out the pointer
GetVMInfoLookup(t) ==
    /\ pc[t] = "lookup" /\ call[t].op = "GetVMInfo"
    /\ IF call[t].name \in DOMAIN vms
       THEN /\ vm' = [vm EXCEPT ![t] = vms[call[t].name]]
            /\ ret' = [ret EXCEPT ![t].info = vms[call[t].name], ![t].err = ErrNil]
       ELSE /\ ret' = [ret EXCEPT ![t].err = ErrNotFound]
            /\ UNCHANGED vm
    /\ pc' = [pc EXCEPT ![t] = "unlock"]
    /\ UNCHANGED <<vms, heap, mu, next, call, pre, created, stopped, last, start>>

\* GetVMState, lines 199-202
GetVMStateLookup(t) == call[t].op = "GetVMState" /\ Lookup(t, "read")

\* GetVMState, line 204: return vm.State, nil
GetVMStateRead(t) ==
    /\ pc[t] = "read" /\ call[t].op = "GetVMState"
    /\ ret' = [ret EXCEPT ![t].state = heap[vm[t]].State, ![t].err = ErrNil]
    /\ pc' = [pc EXCEPT ![t] = "unlock"]
    /\ UNCHANGED <<vms, heap, mu, next, call, vm, pre, created, stopped, last, start>>

\* The successful creates not yet undone by a successful delete.
Created(c, r) ==
    IF c.op = "CreateVM" /\ r.err = ErrNil THEN created \cup {c.name}
    ELSE IF c.op = "DeleteVM" /\ r.err = ErrNil THEN created \ {c.name}
    ELSE created

\* The names stopped by a successful StopVM since their successful CreateVM.
Stopped(c, r) ==
    IF c.op = "StopVM" /\ r.err = ErrNil THEN stopped \cup {c.name}
    ELSE IF c.op \in {"CreateVM", "DeleteVM"} /\ r.err = ErrNil THEN stopped \ {c.name}
    ELSE stopped

\* The caller has the result; the goroutine is free for its next call.
Returned(t) ==
    /\ call' = [call EXCEPT ![t] = NoCall]
    /\ vm' = [vm EXCEPT ![t] = Nil]
    /\ ret' = [ret EXCEPT ![t] = ZeroRet]
    /\ pre' = [pre EXCEPT ![t] = EmptyView]
    /\ pc' = [pc EXCEPT ![t] = "idle"]
    /\ heap' = Collect(heap, vms, vm')
    /\ UNCHANGED <<last, start>>

\* Mutant: the guard is released before the final return nil and not
\* deferred, so the returns with an error leave it held.
UnlockOnSuccess(t) ==
    /\ pc[t] = "unlock"
    /\ mu' = IF ret[t].err = ErrNil THEN Unlocked(t, LockMode(call[t].op)) ELSE mu
    /\ created' = Created(call[t], ret[t])
    /\ stopped' = Stopped(call[t], ret[t])
    /\ Returned(t)
    /\ UNCHANGED <<vms, next>>

\* defer m.mu.Unlock() / defer m.mu.RUnlock(): runs as the method returns.
Unlock(t) ==
    /\ pc[t] = "unlock"
    /\ mu' = Unlocked(t, LockMode(call[t].op))
    /\ created' = Created(call[t], ret[t])
    /\ stopped' = Stopped(call[t], ret[t])
    /\ Returned(t)
    /\ UNCHANGED <<vms, next>>

\* Close, lines 61-64: logs and returns nil; it takes no lock.
Close(t) ==
    /\ pc[t] = "log" /\ call[t].op = "Close"
    /\ Returned(t)
    /\ UNCHANGED <<vms, mu, next, created, stopped>>

\* The same return, seen by a caller that keeps the result (pc "done").
Finish(t) ==
    /\ pc[t] = "unlock"
    /\ mu' = Unlocked(t, LockMode(call[t].op))
    /\ created' = Created(call[t], ret[t])
    /\ stopped' = Stopped(call[t], ret[t])
    /\ pc' = [pc EXCEPT ![t] = "done"]
    /\ UNCHANGED <<vms, heap, next, call, vm, ret, pre, last, start>>

\* Close returning to a caller that keeps the result.
CloseDone(t) ==
    /\ pc[t] = "log" /\ call[t].op = "Close"
    /\ pc' = [pc EXCEPT ![t] = "done"]
    /\ UNCHANGED <<vms, heap, mu, next, call, vm, ret, pre, created, stopped, last, start>>

Next ==
    \E t \in Threads :
        \/ \E c \in Calls : Call(t, c)
        \/ CreateVMCheck(t)
        \/ CreateVMPut(t)
        \/ CreateVMRun(t)
        \/ ListVMsRange(t)
        \/ StartVMLookup(t)
        \/ StartVMSet(t)
        \/ StopVMLookup(t)
        \/ StopVMSet(t)
        \/ DeleteVMLookup(t)
        \/ DeleteVMStop(t)
        \/ DeleteVMRemove(t)
        \/ GetVMInfoLookup(t)
        \/ GetVMStateLookup(t)
        \/ GetVMStateRead(t)
        \/ Close(t)
        \/ Unlock(t)

Spec == Init /\ [][Next]_vars

\* ------------------------------------------------- a single caller, in sequence
\* One goroutine makes call after call and keeps each result until the next.
Caller == CHOOSE t \in Threads : \A u \in Threads : t <= u

NextSeq ==
    \E t \in {Caller} :
        \/ \E c \in Calls : Call(t, c)
        \/ \E c \in Calls : Again(t, c)
        \/ CreateVMCheck(t)
        \/ CreateVMPut(t)
        \/ CreateVMRun(t)
        \/ ListVMsRange(t)
        \/ StartVMLookup(t)
        \/ StartVMSet(t)
        \/ StopVMLookup(t)
        \/ StopVMSet(t)
        \/ DeleteVMLookup(t)
        \/ DeleteVMStop(t)
        \/ DeleteVMRemove(t)
        \/ GetVMInfoLookup(t)
        \/ GetVMStateLookup(t)
        \/ GetVMStateRead(t)
        \/ CloseDone(t)
        \/ Finish(t)

SpecSeq == Init /\ [][NextSeq]_vars

\* ------------------------------------------- concurrent calls on one name
\* Each method run alone on registry reg (names to records): what it returns
\* and the registry it leaves.  CreateVM, lines 67-103.
SeqCreateVM(reg, config) ==
    LET e == CreateVMError(reg, config)
    IN IF e # ErrNil
       THEN [err |-> e, state |-> "", reg |-> reg]
       ELSE [err |-> ErrNil, state |-> "",
             reg |-> [n \in DOMAIN reg \cup {config.Name} |->
                        IF n = config.Name
                        THEN [Config |-> config, State |-> VMStateRunning]
                        ELSE reg[n]]]

\* StartVM (lines 120-137) and StopVM (lines 140-157): s is the state they set.
SeqSetState(reg, name, s) ==
    IF name \notin DOMAIN reg
    THEN [err |-> ErrNotFound, state |-> "", reg |-> reg]
    ELSE [err |-> ErrNil, state |-> "", reg |-> [reg EXCEPT ![name].State = s]]

\* DeleteVM, lines 160-179.
SeqDeleteVM(reg, name) ==
    IF name \notin DOMAIN reg
    THEN [err |-> ErrNotFound, state |-> "", reg |-> reg]
    ELSE [err |-> ErrNil, state |-> "",
          reg |-> [n \in DOMAIN reg \ {name} |-> reg[n]]]

\* GetVMState, lines 195-205.
SeqGetVMState(reg, name) ==
    IF name \notin DOMAIN reg
    THEN [err |-> ErrNotFound, state |-> "", reg |-> reg]
    ELSE [err |-> ErrNil, state |-> reg[name].State, reg |-> reg]

Sequential(reg, c) ==
    CASE c.op = "CreateVM" -> SeqCreateVM(reg, c.config)
      [] c.op = "StartVM" -> SeqSetState(reg, c.name, VMStateRunning)
      [] c.op = "StopVM" -> SeqSetState(reg, c.name, VMStateStopped)
      [] c.op = "DeleteVM" -> SeqDeleteVM(reg, c.name)
      [] c.op = "GetVMState" -> SeqGetVMState(reg, c.name)

\* The calls of goroutines order[1], order[2], ... run one after the other
\* from registry reg: the final registry and what each call returned.
RECURSIVE RunInOrder(_, _, _)
RunInOrder(order, reg, rets) ==
    IF order = <<>> THEN [reg |-> reg, rets |-> rets]
    ELSE LET t == Head(order)
             out == Sequential(reg, call[t])
         IN RunInOrder(Tail(order), out.reg,
                       [rets EXCEPT ![t] = [err |-> out.err, state |-> out.state]])

\* Two or more goroutines have each called a method on the same name and are
\* blocked in m.mu.Lock() / m.mu.RLock(); the registry is as earlier calls
\* on that name left it: the name absent, or present, stopped or running.
ValidConfigs(n) == {c \in VMConfig : c.Name = n /\ c.Memory > 0 /\ c.VCPUs > 0}

StoredVMs(n) == {[Config |-> c, State |-> s] :
                    c \in ValidConfigs(n), s \in {VMStateStopped, VMStateRunning}}

FirstAddr(n) == NameIndex(n) * BlockSize + 1

RaceCalls(n) ==
    {c \in Calls : /\ c.name = n
                   /\ c.op \in {"CreateVM", "StartVM", "StopVM", "DeleteVM", "GetVMState"}}

Racers == {t \in Threads : call[t] # NoCall}

InitRace ==
    \E n \in VMNames, R \in SUBSET Threads : \E present \in SUBSET {n} :
        /\ Cardinality(R) >= 2
        /\ vms = [o \in present |-> FirstAddr(o)]
        /\ heap \in [{FirstAddr(o) : o \in present} -> UNION {StoredVMs(o) : o \in present}]
        /\ \A o \in present : heap[vms[o]].Config.Name = o
        /\ mu = [writer |-> Nil, readers |-> {}]
        /\ next = 1
        /\ pc = [t \in Threads |-> IF t \in R THEN "lock" ELSE "idle"]
        /\ call \in [Threads -> RaceCalls(n) \cup {NoCall}]
        /\ \A t \in Threads : call[t] = NoCall <=> t \notin R
        /\ vm = [t \in Threads |-> Nil]
        /\ ret = [t \in Threads |-> ZeroRet]
        /\ pre = [t \in Threads |-> EmptyView]
        /\ created = present
        /\ stopped \in SUBSET present
        /\ \A o \in present : heap[vms[o]].State = VMStateStopped => o \in stopped
        /\ last = NoLast
        /\ start = Registry

NextRace ==
    \E t \in Threads :
        \/ Acquire(t)
        \/ CreateVMCheck(t)
        \/ CreateVMPut(t)
        \/ CreateVMRun(t)
        \/ StartVMLookup(t)
        \/ StartVMSet(t)
        \/ StopVMLookup(t)
        \/ StopVMSet(t)
        \/ DeleteVMLookup(t)
        \/ DeleteVMStop(t)
        \/ DeleteVMRemove(t)
        \/ GetVMStateLookup(t)
        \/ GetVMStateRead(t)
        \/ Finish(t)

SpecRace == InitRace /\ [][NextRace]_vars

\* ---------------------------------------------- callers that may have to wait
\* The calls made here: every method on one name, and CreateVM with one
\* configuration for each of its return paths (the valid one fails with
\* "already exists" when repeated).
LiveName == NamePool[1]
LiveConfigs ==
    {c \in VMConfig : /\ c.DiskPath = ""
                      /\ \/ c.Name = LiveName /\ (c.Memory > 0 \/ c.VCPUs > 0)
                         \/ c.Name = "" /\ c.Memory > 0 /\ c.VCPUs > 0}
LiveCalls ==
    {c \in Calls : IF c.op = "CreateVM" THEN c.config \in LiveConfigs
                   ELSE c.name \in {"", LiveName} /\ (c.op \in ByName => c.name = LiveName)}

\* The statements of a method after the guard is taken, to its return.
Body(t) ==
    \/ CreateVMCheck(t)
    \/ CreateVMPut(t)
    \/ CreateVMRun(t)
    \/ ListVMsRange(t)
    \/ StartVMLookup(t)
    \/ StartVMSet(t)
    \/ StopVMLookup(t)
    \/ StopVMSet(t)
    \/ DeleteVMLookup(t)
    \/ DeleteVMStop(t)
    \/ DeleteVMRemove(t)
    \/ GetVMInfoLookup(t)
    \/ GetVMStateLookup(t)
    \/ GetVMStateRead(t)
    \/ Close(t)
    \/ Unlock(t)

\* sync.RWMutex as the callers meet it.  A writer in Lock() first takes the
\* mutex that orders the writers (waiting for it at pc "lock") and announces
\* itself (pc "pending"), then waits for the readers inside to leave; a reader
\* arriving in RLock() while a writer is announced or inside blocks (pc
\* "blocked") until that writer's Unlock lets it in.
Pending == {u \in Threads : pc[u] = "pending"}
NoWriter == mu.writer = Nil /\ Pending = {}

\* The call is made, and it waits.
Wait(t, c, where) ==
    /\ pc' = [pc EXCEPT ![t] = where]
    /\ call' = [call EXCEPT ![t] = c]
    /\ UNCHANGED <<vms, heap, mu, next, vm, ret, pre, created, stopped, last, start>>

\* A goroutine calls a method and runs its first statement: m.mu.Lock(),
\* m.mu.RLock(), or for Close, which takes no lock, the log line.
Invoke(t, c) ==
    /\ pc[t] = "idle"
    /\ IF c.op = "Close" THEN Enter(t, c) /\ UNCHANGED last
       ELSE IF c.op \in ReadOps
       THEN IF NoWriter THEN Enter(t, c) /\ UNCHANGED last
            ELSE Wait(t, c, "blocked")
       ELSE Wait(t, c, IF NoWriter THEN "pending" ELSE "lock")

\* A writer that waited for the writers' mutex gets it.
LockAnnounce(t) ==
    /\ pc[t] = "lock" /\ NoWriter
    /\ Wait(t, call[t], "pending")

\* The readers have left: Lock() returns.
LockAcquire(t) == pc[t] = "pending" /\ Enter(t, call[t]) /\ UNCHANGED last

\* A writer's Unlock has let the reader in: RLock() returns.
RLockResume(t) ==
    /\ pc[t] = "blocked" /\ t \in mu.readers
    /\ Enter(t, call[t]) /\ UNCHANGED last

NextLive ==
    \E t \in Threads :
        \/ \E c \in LiveCalls : Invoke(t, c)
        \/ LockAnnounce(t)
        \/ LockAcquire(t)
        \/ RLockResume(t)
        \/ Body(t)

\* The scheduler runs every goroutine that can run (weak fairness), and the
\* mutex that orders the writers hands over to its longest waiter, so that no
\* writer is passed over for ever (strong fairness of the announcement).
\* Nothing obliges a caller to call.
Fairness ==
    \A t \in Threads :
        /\ WF_vars(LockAcquire(t) \/ RLockResume(t) \/ Body(t))
        /\ SF_vars(LockAnnounce(t))

SpecLive == Init /\ [][NextLive]_vars /\ Fairness

\* ------------------------------------- a caller that keeps GetVMInfo's result
\* GetVMInfo, lines 183 and 191: return vm, nil; the deferred RUnlock runs and
\* the caller has the pointer to the registry's own record (vmInfo).
GetVMInfoReturn(t) ==
    /\ call[t].op = "GetVMInfo" /\ ret[t].err = ErrNil
    /\ Finish(t)

\* The caller reads vmInfo.State (VM_USAGE.md, line 117).  It holds no lock: a
\* StartVM, StopVM or DeleteVM writing the field at the same time races with
\* the read, which yields the value before or after the write.
UseInfo(t) ==
    /\ pc[t] = "done" /\ call[t].op = "GetVMInfo"
    /\ ret[t].info # Nil /\ ret[t].state = ""
    /\ ret' = [ret EXCEPT ![t].state = heap[ret[t].info].State]
    /\ UNCHANGED <<vms, heap, mu, next, pc, call, vm, pre, created, stopped, last, start>>

\* vmInfo goes out of scope.
Forget(t) ==
    /\ pc[t] = "done" /\ call[t].op = "GetVMInfo"
    /\ Returned(t)
    /\ UNCHANGED <<vms, mu, next, created, stopped>>

\* One caller keeps what GetVMInfo returned; the other goroutines call on.
NextInfo ==
    \/ \E t \in Threads :
          \/ \E c \in LiveCalls : Call(t, c)
          \/ Body(t)
    \/ \E t \in {Caller} :
          \/ GetVMInfoReturn(t)
          \/ UseInfo(t)
          \/ Forget(t)

SpecInfo == Init /\ [][NextInfo]_vars

\* ================================================================ claims
\* The spec's error taxonomy over the errors the code builds.
InvalidArgument == {ErrEmptyName, ErrZeroMemory, ErrZeroVCPUs}
AlreadyExists == {ErrExists}
NotFound == {ErrNotFound}

Valid(config) == config.Name # "" /\ config.Memory > 0 /\ config.VCPUs > 0
Range(seq) == {seq[i] : i \in 1..Len(seq)}

\* Goroutine t has run the body of method o and holds the result, the guard
\* not yet released.
Returning(t, o) == pc[t] = "unlock" /\ call[t].op = o
\* The caller of method o has its result.
Done(t, o) == pc[t] = "done" /\ call[t].op = o

\* The heap records made for name n.
RecordsOf(n) == {a \in DOMAIN heap : heap[a].Config.Name = n}

AllDone == Racers # {} /\ \A t \in Racers : pc[t] = "done"

\* ---- C1
\* All the concurrent calls are CreateVM with valid configurations, of a name
\* the registry did not hold.
CreateRace ==
    \A t \in Racers : /\ call[t].op = "CreateVM"
                      /\ Valid(call[t].config)
                      /\ call[t].name \notin DOMAIN start

\* C1: of N >= 2 concurrent CreateVM calls of one absent name, never more than
\* one has succeeded, and once all have returned exactly one returned nil, the
\* other N-1 "already exists", and the registry holds one record of the name:
\* the winner's.
C1_OneCreateWins ==
    CreateRace =>
        LET won == {t \in Racers : pc[t] = "done" /\ ret[t].err = ErrNil}
            lost == {t \in Racers : pc[t] = "done" /\ ret[t].err \in AlreadyExists}
        IN /\ Cardinality(won) <= 1
           /\ AllDone =>
                /\ Cardinality(won) = 1
                /\ Cardinality(lost) = Cardinality(Racers) - 1
                /\ \A t \in won :
                     /\ call[t].name \in DOMAIN vms
                     /\ Cardinality(RecordsOf(call[t].name)) = 1
                     /\ Registry[call[t].name].Config = call[t].config

C1_Witness ==
    /\ CreateRace /\ AllDone /\ Cardinality(Racers) >= 2
    /\ \E t \in Racers : ret[t].err \in AlreadyExists

\* ---- C10
NoRets == [t \in Threads |-> [err |-> ErrNil, state |-> ""]]

\* The results returned and the registry left equal those of the calls run
\* one after the other in the order given.
AsInOrder(order) ==
    LET out == RunInOrder(order, start, NoRets)
    IN /\ out.reg = Registry
       /\ \A t \in Racers : /\ ret[t].err = out.rets[t].err
                            /\ ret[t].state = out.rets[t].state

StartRace ==
    \A t \in Racers : call[t].op = "StartVM" /\ call[t].name \in DOMAIN start

\* C10: once concurrent CreateVM/StartVM/StopVM/DeleteVM/GetVMState calls on
\* one name have all returned, their results and the registry are those of
\* some sequential order of the same calls; concurrent StartVM calls on an
\* existing name all return nil and leave it running.
C10_Serializable ==
    AllDone =>
        /\ \E order \in Orders(Racers) : AsInOrder(order)
        /\ StartRace =>
             \A t \in Racers : /\ ret[t].err = ErrNil
                               /\ Registry[call[t].name].State = VMStateRunning

C10_Witness ==
    /\ AllDone /\ StartRace /\ Cardinality(Racers) >= 2
    /\ \A t \in Racers : start[call[t].name].State = VMStateStopped
    /\ \A t \in Racers : ret[t].err = ErrNil

\* ---- C2
CreatedJustBefore(t) == last = [op |-> "CreateVM", name |-> call[t].name, err |-> ErrNil]

\* C2: CreateVM of a valid configuration whose name the registry does not hold
\* returns nil and stores the configuration under that name; GetVMState and
\* GetVMInfo called next, nothing in between, report the state running.
C2_CreateThenInspectRunning ==
    \A t \in Threads :
        /\ Done(t, "CreateVM") /\ Valid(call[t].config) /\ call[t].name \notin DOMAIN pre[t]
             => /\ ret[t].err = ErrNil
                /\ call[t].name \in DOMAIN vms
                /\ Registry[call[t].name].Config = call[t].config
        /\ Done(t, "GetVMState") /\ CreatedJustBefore(t)
             => ret[t].err = ErrNil /\ ret[t].state = VMStateRunning
        /\ Done(t, "GetVMInfo") /\ CreatedJustBefore(t)
             => /\ ret[t].err = ErrNil
                /\ ret[t].info \in DOMAIN heap
                /\ heap[ret[t].info].State = VMStateRunning

C2_Witness ==
    \E t \in Threads :
        /\ Done(t, "GetVMState") /\ CreatedJustBefore(t)
        /\ ret[t].state = VMStateRunning

\* ---- C3
Rejected(config) == config.Memory = 0 \/ config.VCPUs = 0 \/ config.Name = ""

\* C3 as stated: CreateVM with memory 0, vcpus 0 or an empty name returns an
\* InvalidArgument error and adds no name.
C3_Original ==
    \A t \in Threads :
        Returning(t, "CreateVM") /\ Rejected(call[t].config)
            => ret[t].err \in InvalidArgument /\ DOMAIN vms = DOMAIN pre[t]

\* C3, amended: such a CreateVM returns an InvalidArgument error when the
\* registry does not hold the name and "already exists" when it does, and in
\* both cases adds no name.
C3_RejectedCreateAddsNothing ==
    \A t \in Threads :
        Returning(t, "CreateVM") /\ Rejected(call[t].config)
            => /\ IF call[t].name \in DOMAIN pre[t]
                  THEN ret[t].err \in AlreadyExists
                  ELSE ret[t].err \in InvalidArgument
               /\ DOMAIN vms = DOMAIN pre[t]

C3_Witness ==
    \E t \in Threads :
        /\ Returning(t, "CreateVM")
        /\ call[t].config.Memory = 0 /\ call[t].config.VCPUs # 0
        /\ call[t].name \in VMNames \ DOMAIN pre[t]
        /\ ret[t].err = ErrZeroMemory
        /\ DOMAIN vms # {}

\* ---- C4
\* C4: CreateVM of a name the registry holds returns "already exists",
\* whatever else the configuration says, and the record of that name keeps the
\* configuration and state it had.
C4_DuplicateKeepsOriginal ==
    \A t \in Threads :
        Returning(t, "CreateVM") /\ call[t].name \in DOMAIN pre[t]
            => /\ ret[t].err \in AlreadyExists
               /\ call[t].name \in DOMAIN vms
               /\ Registry[call[t].name] = pre[t][call[t].name]

C4_Witness ==
    \E t \in Threads :
        /\ Returning(t, "CreateVM") /\ call[t].name \in DOMAIN pre[t]
        /\ Valid(call[t].config)
        /\ call[t].config # pre[t][call[t].name].Config
        /\ pre[t][call[t].name].State = VMStateStopped
        /\ ret[t].err \in AlreadyExists

\* ---- C5
SameJustBefore(t) == last = [op |-> call[t].op, name |-> call[t].name, err |-> ErrNil]

\* C5: StartVM of a name the registry holds returns nil and leaves it running,
\* StopVM returns nil and leaves it stopped; called a second time in
\* succession each finds the state it left, returns nil and leaves it so.
C5_StartStopIdempotent ==
    \A t \in Threads :
        /\ Done(t, "StartVM") /\ call[t].name \in DOMAIN pre[t]
             => ret[t].err = ErrNil /\ Registry[call[t].name].State = VMStateRunning
        /\ Done(t, "StopVM") /\ call[t].name \in DOMAIN pre[t]
             => ret[t].err = ErrNil /\ Registry[call[t].name].State = VMStateStopped
        /\ Done(t, "StartVM") /\ SameJustBefore(t)
             => /\ ret[t].err = ErrNil
                /\ pre[t][call[t].name].State = VMStateRunning
                /\ Registry = pre[t]
        /\ Done(t, "StopVM") /\ SameJustBefore(t)
             => /\ ret[t].err = ErrNil
                /\ pre[t][call[t].name].State = VMStateStopped
                /\ Registry = pre[t]

C5_Witness ==
    \E t \in Threads :
        /\ Done(t, "StartVM") /\ SameJustBefore(t)
        /\ ret[t].err = ErrNil
        /\ Registry[call[t].name].State = VMStateRunning

\* ---- C6

\* C6: StartVM, StopVM, DeleteVM, GetVMInfo and GetVMState return "not found"
\* exactly when the registry does not hold the name, that is when no
\* successful CreateVM of it stands undeleted; no other method returns it.
C6_NotFoundIffAbsent ==
    \A t \in Threads :
        /\ \A o \in ByName :
             Returning(t, o)
                => /\ ret[t].err \in NotFound <=> call[t].name \notin DOMAIN pre[t]
                   /\ ret[t].err \in NotFound <=> call[t].name \notin created
                   /\ ret[t].err \in NotFound \cup {ErrNil}
        /\ \A o \in Ops \ ByName : Returning(t, o) => ret[t].err \notin NotFound

C6_Witness ==
    \E t \in Threads :
        /\ Returning(t, "DeleteVM")
        /\ ret[t].err \in NotFound
        /\ call[t].name \in VMNames
        /\ created # {}

\* ---- C7
\* C7: a method that returns an error leaves the registry as it found it:
\* the same names, each with the same configuration and state.
C7_FailureChangesNothing ==
    \A t \in Threads :
        pc[t] = "unlock" /\ ret[t].err # ErrNil
            => /\ Registry = pre[t]
               /\ ret[t].err \in InvalidArgument \cup AlreadyExists \cup NotFound

C7_Witness ==
    \E t \in Threads :
        /\ Returning(t, "CreateVM")
        /\ ret[t].err \in InvalidArgument
        /\ call[t].name \in VMNames
        /\ Registry = pre[t] /\ DOMAIN pre[t] # {}

\* ---- C8
Without(reg, name) == [n \in DOMAIN reg \ {name} |-> reg[n]]

\* C8: DeleteVM of a name the registry holds returns nil and removes that
\* name and no other, running or stopped; right after its CreateVM the
\* machine is running and is deleted all the same; and when every created
\* name has been deleted, the ListVMs that follows returns the empty sequence.
C8_DeleteAnyState ==
    \A t \in Threads :
        /\ Done(t, "DeleteVM") /\ call[t].name \in DOMAIN pre[t]
             => ret[t].err = ErrNil /\ Registry = Without(pre[t], call[t].name)
        /\ Done(t, "DeleteVM") /\ CreatedJustBefore(t)
             => /\ pre[t][call[t].name].State = VMStateRunning
                /\ ret[t].err = ErrNil
                /\ call[t].name \notin DOMAIN vms
        /\ Done(t, "ListVMs") /\ last.op = "DeleteVM" /\ last.err = ErrNil /\ created = {}
             => ret[t].err = ErrNil /\ ret[t].names = <<>>

C8_Witness ==
    \E t \in Threads :
        /\ Done(t, "DeleteVM") /\ CreatedJustBefore(t)
        /\ pre[t][call[t].name].State = VMStateRunning
        /\ ret[t].err = ErrNil
        /\ Registry = EmptyView

\* ---- C9
\* C9: whenever no writer is inside, the names in the registry are those with
\* a successful CreateVM not followed by a successful DeleteVM; each name has
\* one record, its own, shared with no other name; GetVMState finds a name
\* and ListVMs returns it exactly when it is one of those.
C9_PresentIffCreated ==
    /\ mu.writer = Nil => DOMAIN vms = created
    /\ \A n \in DOMAIN vms : vms[n] \in DOMAIN heap /\ heap[vms[n]].Config.Name = n
    /\ \A n, m \in DOMAIN vms : vms[n] = vms[m] => n = m
    /\ \A t \in Threads :
         /\ Returning(t, "GetVMState")
              => (ret[t].err = ErrNil <=> call[t].name \in created)
         /\ Returning(t, "ListVMs")
              => /\ Range(ret[t].names) = created
                 /\ Len(ret[t].names) = Cardinality(created)

C9_Witness ==
    \E t, u \in Threads :
        /\ Returning(t, "ListVMs") /\ Range(ret[t].names) = VMNames
        /\ Returning(u, "GetVMState") /\ ret[u].state = VMStateStopped
        /\ created = VMNames

\* ---- C11
\* Goroutine t is inside a method with the guard taken.
Holds(t) == mu.writer = t \/ t \in mu.readers

\* C11: the registry alone owns the records: a goroutine has a pointer to a
\* record only while it is inside a method and holds the guard, so every read
\* or write of a record's fields is made under the guard.
C11_RegistryOwnsRecords ==
    \A t \in Threads : vm[t] # Nil \/ ret[t].info # Nil => Holds(t)

\* What the reference allows: the caller reads the state of a record while a
\* StartVM, StopVM or DeleteVM holding the exclusive guard is about to write it.
C11_RacingRead ==
    \E t, w \in Threads :
        /\ pc[t] = "done" /\ ret[t].info # Nil /\ ret[t].state = ""
        /\ mu.writer = w /\ vm[w] = ret[t].info
        /\ pc[w] \in {"setstate", "stop"}

\* ---- C12
\* C12: ListVMs returns nil and, each once, exactly the names the registry
\* held when it took the shared guard, which are the names it holds until the
\* guard is released, whatever CreateVM and DeleteVM calls the other goroutines
\* make; from an empty registry it returns the empty sequence.
C12_ListIsSnapshot ==
    \A t \in Threads :
        Returning(t, "ListVMs")
            => /\ ret[t].err = ErrNil
               /\ Range(ret[t].names) = DOMAIN pre[t]
               /\ Len(ret[t].names) = Cardinality(DOMAIN pre[t])
               /\ DOMAIN vms = DOMAIN pre[t]
               /\ DOMAIN pre[t] = {} => ret[t].names = <<>>

C12_Witness ==
    \E t, u \in Threads :
        /\ Returning(t, "ListVMs") /\ Range(ret[t].names) = VMNames
        /\ Returning(u, "ListVMs") /\ ret[u].names # ret[t].names

\* ---- C13
\* C13: CreateVM reports the first failure in the order existence, empty
\* name, memory, vcpus: a name the registry holds gives "already exists" also
\* with memory 0 or vcpus 0; an empty name gives the empty-name error also with
\* memory 0 or vcpus 0; memory 0 gives the memory error also with vcpus 0; the
\* vcpus error is left for vcpus 0 alone, and nil for none of these.
C13_ValidationOrder ==
    \A t \in Threads :
        Returning(t, "CreateVM") =>
            LET config == call[t].config
            IN /\ config.Name \in DOMAIN pre[t] => ret[t].err = ErrExists
               /\ config.Name = "" => ret[t].err = ErrEmptyName
               /\ config.Name \notin DOMAIN pre[t] \cup {""} /\ config.Memory = 0
                    => ret[t].err = ErrZeroMemory
               /\ config.Name \notin DOMAIN pre[t] \cup {""} /\ config.Memory # 0
                      /\ config.VCPUs = 0
                    => ret[t].err = ErrZeroVCPUs
               /\ config.Name \notin DOMAIN pre[t] /\ Valid(config) => ret[t].err = ErrNil

C13_Witness ==
    \E t \in Threads :
        /\ Returning(t, "CreateVM") /\ pre[t] # EmptyView
        /\ call[t].name \in VMNames \ DOMAIN pre[t]
        /\ call[t].config.Memory = 0 /\ call[t].config.VCPUs = 0
        /\ ret[t].err = ErrZeroMemory

\* ---- C14
\* C14: every record, in the registry or still referred to by a goroutine, is
\* stopped or running, never paused, and no method returns any other state.
C14_NeverPaused ==
    /\ \A a \in DOMAIN heap : heap[a].State \in {VMStateStopped, VMStateRunning}
    /\ \A n \in DOMAIN vms : Registry[n].State \in VMState \ {VMStatePaused}
    /\ \A t \in Threads :
         Returning(t, "GetVMState") /\ ret[t].err = ErrNil
            => ret[t].state \in {VMStateStopped, VMStateRunning}

C14_Witness ==
    /\ DOMAIN vms = VMNames
    /\ \E n, m \in VMNames : /\ Registry[n].State = VMStateStopped
                             /\ Registry[m].State = VMStateRunning
    /\ \E t \in Threads : Returning(t, "StopVM") /\ pre[t] # Registry

\* ---- C15
\* A name enters the registry in this step, put there by a CreateVM past its
\* checks, with the configuration that call was given.
StoredAsSupplied(n) ==
    \E t \in Threads : /\ pc[t] = "put" /\ call[t].op = "CreateVM"
                       /\ call[t].config.Name = n
                       /\ Registry'[n].Config = call[t].config

\* C15: a name enters the registry only with the configuration given to the
\* CreateVM that stores it, and no step of any method changes the configuration
\* of a name that stays: from its CreateVM to its DeleteVM a record has the
\* configuration supplied, and StartVM and StopVM change its state alone.
C15_ConfigNeverMutated ==
    [][\A n \in Names :
          /\ n \in DOMAIN vms' \ DOMAIN vms => StoredAsSupplied(n)
          /\ n \in DOMAIN vms' \cap DOMAIN vms
                => Registry'[n].Config = Registry[n].Config]_vars

C15_Witness ==
    \E t \in Threads :
        /\ Returning(t, "StartVM") /\ ret[t].err = ErrNil
        /\ pre[t][call[t].name].State = VMStateStopped
        /\ Registry[call[t].name].State = VMStateRunning
        /\ Registry[call[t].name].Config = pre[t][call[t].name].Config
        /\ Registry[call[t].name].Config.DiskPath # ""

\* ---- C16
\* C16: a step that takes a name out of the registry finds its record
\* stopped: DeleteVM has set a running record to stopped earlier in the same
\* exclusive section, and nothing else removes a name.
C16_DeletedOnlyStopped ==
    [][\A n \in DOMAIN vms \ DOMAIN vms' :
          /\ Registry[n].State = VMStateStopped
          /\ \E t \in Threads : /\ pc[t] = "remove" /\ call[t].op = "DeleteVM"
                                /\ call[t].name = n /\ mu.writer = t]_vars

C16_Witness ==
    \E t \in Threads :
        /\ Returning(t, "DeleteVM") /\ ret[t].err = ErrNil
        /\ pre[t][call[t].name].State = VMStateRunning
        /\ call[t].name \notin DOMAIN vms
        /\ heap[vm[t]].State = VMStateStopped

\* ---- C17
MutatingOps == {"CreateVM", "StartVM", "StopVM", "DeleteVM"}

\* Goroutine t is between the Lock/RLock and the deferred Unlock/RUnlock of
\* one of the methods ops.
InsideOf(t, ops) ==
    call[t].op \in ops /\ pc[t] \notin {"idle", "lock", "done", "log"}

Writers == {t \in Threads : InsideOf(t, MutatingOps)}
Readers == {t \in Threads : InsideOf(t, ReadOps)}

\* C17: CreateVM, StartVM, StopVM and DeleteVM are inside only with the guard
\* held exclusively, ListVMs, GetVMInfo and GetVMState only with it held
\* shared; never are two writers inside, nor a writer with a reader, while
\* readers may be inside together.
C17_GuardRespected ==
    /\ Cardinality(Writers) <= 1
    /\ Writers # {} => Readers = {}
    /\ \A t \in Writers : mu.writer = t /\ mu.readers = {}
    /\ \A t \in Readers : t \in mu.readers /\ mu.writer = Nil
    /\ mu.readers \subseteq Readers
    /\ mu.writer # Nil => mu.writer \in Writers

C17_Witness ==
    /\ Cardinality(Readers) >= 2
    /\ \E t, u \in Readers : call[t].op = "ListVMs" /\ call[u].op = "GetVMInfo"
    /\ DOMAIN vms # {}

\* ---- C18
\* C18: a goroutine that is not inside a method holds no guard, and under
\* fair scheduling every call made, by however many goroutines are calling,
\* takes the guard, runs and returns, on the success path and on each failure
\* path.
C18_EveryCallReturns ==
    /\ [](\A t \in Threads : pc[t] \in {"idle", "lock", "pending"} => ~Holds(t))
    /\ \A t \in Threads : (pc[t] # "idle") ~> (pc[t] = "idle")

C18_Witness ==
    \E t, u \in Threads :
        /\ pc[t] = "blocked" /\ call[t].op = "GetVMState"
        /\ mu.writer = u /\ Returning(u, "CreateVM") /\ ret[u].err = ErrZeroVCPUs
        /\ \A w \in Threads : pc[w] # "idle"

\* ---- C19
\* C19: the stopped state CreateVM gives a new record before it sets it running
\* is seen by no one: when GetVMState returns stopped, or GetVMInfo finds a
\* stopped record while it holds the guard, a StopVM of that name has returned
\* nil since the latest CreateVM of it that returned nil.
C19_CreateNeverSeenStopped ==
    \A t \in Threads :
        /\ Returning(t, "GetVMState") /\ ret[t].err = ErrNil /\ ret[t].state = VMStateStopped
              => call[t].name \in stopped
        /\ Returning(t, "GetVMInfo") /\ ret[t].err = ErrNil
              /\ heap[ret[t].info].State = VMStateStopped
              => call[t].name \in stopped

C19_Witness ==
    \E t, u \in Threads :
        /\ Returning(t, "GetVMState") /\ ret[t].state = VMStateRunning
        /\ call[t].name \in stopped
        /\ Returning(u, "GetVMInfo") /\ ret[u].err = ErrNil
        /\ heap[ret[u].info].State = VMStateStopped

\* ---- C20
\* The step leaves name m as it is: present or absent as before, with the same
\* configuration and state.
Untouched(m) ==
    /\ m \in DOMAIN vms' <=> m \in DOMAIN vms
    /\ m \in DOMAIN vms => Registry'[m] = Registry[m]

\* C20: every step a goroutine takes inside CreateVM, StartVM, StopVM or
\* DeleteVM leaves all names but the one the call was given untouched, and
\* every step of ListVMs, GetVMInfo, GetVMState and Close, like the making of
\* a call and its return, leaves the whole registry untouched.
C20_OnlyNamedResource ==
    [][\A t \in Threads :
          pc'[t] # pc[t] =>
              \A m \in Names :
                  Untouched(m) \/ (call[t].op \in MutatingOps /\ m = call[t].name)]_vars

C20_Witness ==
    \E t, u \in Threads :
        /\ Returning(t, "DeleteVM") /\ ret[t].err = ErrNil
        /\ DOMAIN pre[t] = VMNames
        /\ \E m \in VMNames \ {call[t].name} :
              m \in DOMAIN vms /\ Registry[m] = pre[t][m]
        /\ pc[u] = "log"
====
